---- MODULE Spec2Model ----
(***************************************************************************)
(* Model of src/index.js: attach(server, options) and the middleware it    *)
(* returns.  Strings are sequences of one-character strings, so that       *)
(* concatenation, toLowerCase and url.parse are computed, not assumed.     *)
(* Every attach call gets its own closure (pages, NotFound, routes,        *)
(* instances); the closure variables are sequences indexed by attach call. *)
(***************************************************************************)
EXTENDS Integers, Sequences, FiniteSets

\* ------------------------------------------------------------------ bounds
MaxAttach == 1
MaxRequests == 3
MaxAdvances == 2
MaxErrors == 2
MaxReattach == 2

\* --------------------------------------------------------------- constants
\* new Expirable('5 minutes'), in milliseconds
TTL == 300000

\* ----------------------------------------------------------------- strings
GET == <<"G", "E", "T">>
POST == <<"P", "O", "S", "T">>
get == <<"g", "e", "t">>

\* The value of a property that is not there (req.sessionID, options['404']).
undefined == <<"undefined">>

\* (x || ''): a missing value becomes the empty string
StrOrEmpty(x) == IF x = undefined THEN <<>> ELSE x

\* String(x), as the + operator applies it to its operands
Str(x) ==
  IF x = undefined THEN <<"u", "n", "d", "e", "f", "i", "n", "e", "d">> ELSE x

LowerChar(c) ==
  CASE c = "G" -> "g" [] c = "E" -> "e" [] c = "T" -> "t" [] c = "P" -> "p"
    [] c = "O" -> "o" [] c = "S" -> "s" [] OTHER -> c

toLowerCase(s) == [i \in 1..Len(s) |-> LowerChar(s[i])]

\* url.parse(req.url): the pathname is what precedes the first "?"
UrlParse(u) ==
  LET qs == {i \in 1..Len(u) : u[i] = "?"}
      q == IF qs = {} THEN Len(u) + 1 ELSE CHOOSE i \in qs : \A j \in qs : i <= j
  IN [pathname |-> SubSeq(u, 1, q - 1), search |-> SubSeq(u, q, Len(u))]

\* ------------------------------------------------------------------- pages
\* The page constructors handed to attach, with their prototype.method and
\* prototype.path.
PageClasses == {"Index", "User", "Post"}

PrototypeMethod(p) ==
  CASE p = "Index" -> GET [] p = "User" -> get [] p = "Post" -> POST

PrototypePath(p) ==
  CASE p = "Index" -> <<"/", "a">>
    [] p = "User" -> <<"/", ":", "i", "d">>
    [] p = "Post" -> <<"/", "a">>

\* Entries of options.pages that are not page constructors.
NotAFunction == "NotAFunction"
Initialized == "Initialized"

TypeOf(item) == IF item = NotAFunction THEN "object" ELSE "function"
InstanceOfPage(item) == item = Initialized

\* ---------------------------------------------------------------- Routable
RECURSIVE Split(_)
Split(s) ==
  IF s = <<>> THEN << <<>> >>
  ELSE LET rest == Split(Tail(s))
       IN IF Head(s) = "/" THEN << <<>> >> \o rest
          ELSE << <<Head(s)>> \o Head(rest) >> \o Tail(rest)

IsParam(seg) == seg # <<>> /\ Head(seg) = ":"

\* new Routable(path)
Routable(pattern) == [pattern |-> pattern, segments |-> Split(pattern)]

RouterTest(rt, uri) ==
  LET segs == Split(uri.pathname)
  IN /\ Len(segs) = Len(rt.segments)
     /\ \A i \in 1..Len(segs) :
          IF IsParam(rt.segments[i]) THEN segs[i] # <<>>
          ELSE segs[i] = rt.segments[i]

RouterExec(rt, uri) ==
  LET segs == Split(uri.pathname)
      ps == {i \in 1..Len(rt.segments) : IsParam(rt.segments[i])}
      F[i \in 0..Len(rt.segments)] ==
        IF i = 0 THEN <<>>
        ELSE IF i \in ps THEN Append(F[i - 1], <<Tail(rt.segments[i]), segs[i]>>)
        ELSE F[i - 1]
  IN F[Len(rt.segments)]

\* --------------------------------------------------------------- Expirable
ExpirableExpired(m, k, t) == t - m[k].last >= m[k].expires

\* does get(k) return a value at time t
ExpirableHas(m, k, t) == k \in DOMAIN m /\ ~ExpirableExpired(m, k, t)

\* the cache after get(k) at time t: an expired entry is deleted, a live one
\* is touched
ExpirableGet(m, k, t) ==
  IF k \notin DOMAIN m THEN m
  ELSE IF ExpirableExpired(m, k, t) THEN [x \in DOMAIN m \ {k} |-> m[x]]
  ELSE [m EXCEPT ![k].last = t]

\* the cache after set(k, v) at time t
ExpirableSet(m, k, v, t) ==
  [x \in DOMAIN m \cup {k} |->
     IF x = k THEN [value |-> v, last |-> t, expires |-> TTL] ELSE m[x]]

\* the cache after the periodic scan at time t
ExpirableScan(m, t) ==
  [x \in {k \in DOMAIN m : ~ExpirableExpired(m, k, t)} |-> m[x]]

EmptyMap == [x \in {} |-> x]

\* ------------------------------------------------------------------- state
VARIABLES
  now,          \* Date.now()
  router,       \* page.router of every page constructor, undefined or a Routable
  compileCount, \* number of Routables constructed for every page constructor
  testCount,    \* number of router.test calls on every page constructor
  execCount,    \* number of router.exec calls on every page constructor
  engine,       \* per attach call: was new Engine(server, ...) evaluated
  thrown,       \* per attach call: the message of the Error thrown, or NoError
  pages,        \* per attach call: the closure's pages
  NotFound,     \* per attach call: options['404'] is set
  routes,       \* per attach call: the routes Expirable
  instances,    \* per attach call: the instances Expirable
  req,          \* the requests handed to a middleware, in order
  res,          \* the response object of every request
  page,         \* the page instance created for every request, or NoPage
  nextCalls,    \* number of next() calls for every request
  trace,        \* what the middleware did for every request
  advances,     \* number of clock steps taken
  errors        \* number of 'error' events emitted

vars == <<now, router, compileCount, testCount, execCount, engine, thrown, pages,
          NotFound, routes, instances, req, res, page, nextCalls, trace,
          advances, errors>>

NoError == "none"
NoPage == [Page |-> "none", params |-> <<>>, listeners |-> 0, emitted |-> <<>>]
NoRouter == [pattern |-> <<>>, segments |-> <<>>]

Init ==
  /\ now = 0
  /\ router = [p \in PageClasses |-> NoRouter]
  /\ compileCount = [p \in PageClasses |-> 0]
  /\ testCount = [p \in PageClasses |-> 0]
  /\ execCount = [p \in PageClasses |-> 0]
  /\ engine = <<>>
  /\ thrown = <<>>
  /\ pages = <<>>
  /\ NotFound = <<>>
  /\ routes = <<>>
  /\ instances = <<>>
  /\ req = <<>>
  /\ res = <<>>
  /\ page = <<>>
  /\ nextCalls = <<>>
  /\ trace = <<>>
  /\ advances = 0
  /\ errors = 0

\* ------------------------------------------------------------------ inputs
\* The options objects attach is called with.
AttachOptions ==
  { [hasPages |-> TRUE, pages |-> <<"Index", "User">>, notFound |-> FALSE],
    [hasPages |-> TRUE, pages |-> <<"User", "Index">>, notFound |-> TRUE],
    [hasPages |-> TRUE, pages |-> <<"Post", "Index">>, notFound |-> TRUE],
    [hasPages |-> TRUE, pages |-> <<"Post">>, notFound |-> FALSE],
    [hasPages |-> FALSE, pages |-> <<>>, notFound |-> FALSE],
    [hasPages |-> TRUE, pages |-> <<"Index", NotAFunction>>, notFound |-> FALSE],
    [hasPages |-> TRUE, pages |-> <<"User", Initialized>>, notFound |-> TRUE] }

\* The requests the host hands to a middleware.
Requests ==
  { [method |-> GET, url |-> <<"/", "a">>, sessionID |-> <<"s">>],
    [method |-> GET, url |-> <<"/", "a", "?", "q">>, sessionID |-> <<"t">>],
    [method |-> GET, url |-> <<"/", "b">>, sessionID |-> <<>>],
    [method |-> GET, url |-> <<"/", "b">>, sessionID |-> undefined],
    [method |-> POST, url |-> <<"/", "a">>, sessionID |-> undefined],
    [method |-> POST, url |-> <<"/", "b">>, sessionID |-> <<"t">>] }

\* The message of the k-th error a page reports.
ErrorMessage(k) == IF k % 2 = 1 THEN "boom" ELSE "bang"

\* The steps of the clock between two events.
ClockSteps == {TTL \div 2, TTL}

\* ------------------------------------------------------------------ attach
FirstBad(list) ==
  LET bad == {i \in 1..Len(list) :
                TypeOf(list[i]) # "function" \/ InstanceOfPage(list[i])}
  IN IF bad = {} THEN 0 ELSE CHOOSE i \in bad : \A j \in bad : i <= j

\* the Error pages.map throws on entry i of the list
MapError(item) ==
  IF TypeOf(item) # "function" THEN "Invalid page type: object"
  ELSE "The supplied Page is already initialized"

\* a router that is set up on every attach
CompilesAlways(rt) == TRUE

\* `if (!page.router)`: is a Routable constructed for the page
Compiles(rt) == rt = NoRouter

\* `if (!page.router) page.router = new Routable(page.prototype.path)`
SetupRouter(rt, p) == IF Compiles(rt) THEN Routable(PrototypePath(p)) ELSE rt

\* new Engine(server, { pages: instances }) is evaluated when attach is entered
EngineConstructed(o) == TRUE

\* the body of attach: lines 29-141
Attached(o) ==
  LET bad == FirstBad(o.pages)
      mapped == IF bad = 0 THEN o.pages ELSE SubSeq(o.pages, 1, bad - 1)
      seen == {mapped[i] : i \in 1..Len(mapped)}
      failure == IF ~o.hasPages THEN "Missing pages property in the options"
                 ELSE IF bad # 0 THEN MapError(o.pages[bad])
                 ELSE NoError
  IN /\ engine' = Append(engine, EngineConstructed(o))
     /\ thrown' = Append(thrown, failure)
     /\ router' = [p \in PageClasses |->
                     IF o.hasPages /\ p \in seen THEN SetupRouter(router[p], p)
                     ELSE router[p]]
     /\ compileCount' = [p \in PageClasses |->
                           IF o.hasPages /\ p \in seen /\ Compiles(router[p])
                           THEN compileCount[p] + 1
                           ELSE compileCount[p]]
     /\ pages' = Append(pages, IF failure = NoError THEN mapped ELSE <<>>)
     /\ NotFound' = Append(NotFound, o.notFound)
     /\ routes' = Append(routes, EmptyMap)
     /\ instances' = Append(instances, EmptyMap)
     /\ UNCHANGED <<now, testCount, execCount, req, res, page, nextCalls, trace,
                    advances, errors>>

attach(o) ==
  /\ Len(thrown) < MaxAttach
  /\ Attached(o)

\* attach called again for the same server, with page constructors it has seen
Reattach(o) ==
  /\ Len(thrown) < MaxReattach
  /\ Attached(o)

\* -------------------------------------------------------------- middleware
\* a route key without the method
idPathOnly(r) == UrlParse(r.url).pathname

\* id = req.method +'@'+ uri.pathname
id(r) == r.method \o <<"@">> \o UrlParse(r.url).pathname

\* the registry key without the session
InstanceKeyNoSession(r) == id(r)

\* session +':'+ id
InstanceKey(r) == Str(r.sessionID) \o <<":">> \o id(r)

\* a lookup under the raw url instead of the id
cachedByUrl(a, r) == ExpirableHas(routes[a], r.method \o <<"@">> \o r.url, now)

\* a lookup in a plain object: entries never expire
cachedForever(a, r) == id(r) \in DOMAIN routes[a]

\* cached = routes.get(id), as a condition
cached(a, r) == ExpirableHas(routes[a], id(r), now)

\* a callback that tests the raw url, query string included
filterCallbackRawUrl(p, r) ==
  /\ toLowerCase(PrototypeMethod(p)) = toLowerCase(r.method)
  /\ RouterTest(router[p], [pathname |-> r.url])

\* the callback of pages.filter
filterCallback(p, r) ==
  /\ toLowerCase(PrototypeMethod(p)) = toLowerCase(r.method)
  /\ RouterTest(router[p], UrlParse(r.url))

\* a scan that stops at the first entry that passes
EvaluatedUntilMatch(a, r) ==
  LET ms == {i \in 1..Len(pages[a]) : filterCallback(pages[a][i], r)}
  IN IF ms = {} THEN 1..Len(pages[a])
     ELSE 1..(CHOOSE i \in ms : \A j \in ms : i <= j)

\* the entries of pages the callback of pages.filter is called on
Evaluated(a, r) == 1..Len(pages[a])

\* the entries of pages whose router.test is called (&& evaluates its right
\* operand only when the left one is true)
Tested(a, r) ==
  {i \in Evaluated(a, r) :
     toLowerCase(PrototypeMethod(pages[a][i])) = toLowerCase(r.method)}

\* the entries of pages that pass the filter
Matches(a, r) == {i \in Evaluated(a, r) : filterCallback(pages[a][i], r)}

\* cached.pop() in place of cached.shift()
Pop(a, r) == CHOOSE i \in Matches(a, r) : \A j \in Matches(a, r) : i >= j

\* cached.shift(): the entry of pages the route resolves to
Shift(a, r) == CHOOSE i \in Matches(a, r) : \A j \in Matches(a, r) : i <= j

\* new Page({ req, res, params }) and page.on('error', ...)
NewPage(P, params) ==
  [Page |-> P, params |-> params, listeners |-> 1, emitted |-> <<>>]

NewResponse == [statusCode |-> 200, ended |-> <<>>]

\* a dispatch that leaves the registry alone
BindNothing(a, r, n) == instances[a]

\* a registry that keeps the instance it already holds
BindKeep(a, r, n) ==
  IF InstanceKey(r) \in DOMAIN instances[a] THEN instances[a]
  ELSE ExpirableSet(instances[a], InstanceKey(r), n, now)

\* instances.set(session +':'+ id, page)
Bind(a, r, n) == ExpirableSet(instances[a], InstanceKey(r), n, now)

\* what a route cache holds under a key
NoEntry == [Page |-> "none", params |-> <<>>]
EntryAt(m, k) == IF k \in DOMAIN m THEN m[k].value ELSE NoEntry

\* routes after routes.get(id) found nothing and routes.set(id, cached): line 136
RoutesStored(a, r, entry) ==
  ExpirableSet(ExpirableGet(routes[a], id(r), now), id(r), entry, now)

\* a page constructed before the route is stored
RoutesBeforeSet(a, r, entry) == ExpirableGet(routes[a], id(r), now)

\* routes as it is when new cached.Page(...) runs on the miss path: line 138
\* follows line 136
RoutesAtNew(a, r, entry) == RoutesStored(a, r, entry)

\* the fast case with a lookup that leaves the entry's time stamp alone
HitNoTouch(a, r, n) ==
  LET entry == routes[a][id(r)].value
  IN /\ routes' = routes
     /\ page' = Append(page, NewPage(entry.Page, entry.params))
     /\ instances' = [instances EXCEPT ![a] = Bind(a, r, n)]
     /\ res' = Append(res, NewResponse)
     /\ nextCalls' = Append(nextCalls, 0)
     /\ trace' = Append(trace, [hit |-> TRUE, evaluated |-> {}, tested |-> {},
                                executed |-> {}, atNew |-> entry,
                                matched |-> {}])
     /\ UNCHANGED <<testCount, execCount>>

\* the fast case: lines 115-119
Hit(a, r, n) ==
  LET entry == routes[a][id(r)].value
  IN /\ routes' = [routes EXCEPT ![a] = ExpirableGet(routes[a], id(r), now)]
     /\ page' = Append(page, NewPage(entry.Page, entry.params))
     /\ instances' = [instances EXCEPT ![a] = Bind(a, r, n)]
     /\ res' = Append(res, NewResponse)
     /\ nextCalls' = Append(nextCalls, 0)
     /\ trace' = Append(trace, [hit |-> TRUE, evaluated |-> {}, tested |-> {},
                                executed |-> {}, atNew |-> entry,
                                matched |-> {}])
     /\ UNCHANGED <<testCount, execCount>>

CountTests(a, r, p) == Cardinality({i \in Tested(a, r) : pages[a][i] = p})

\* what fourohfour(req, res) leaves behind: lines 101-110
fourohfour(a) ==
  IF NotFound[a]
  THEN [res |-> [statusCode |-> 404, ended |-> <<>>],
        page |-> NewPage("NotFound", <<>>)]
  ELSE [res |-> [statusCode |-> 404, ended |-> <<"404, Not found">>],
        page |-> NoPage]

\* no page passes the filter and fourohfour answers
ForwardNotFound(a, r, n) ==
  /\ routes' = [routes EXCEPT ![a] = ExpirableGet(routes[a], id(r), now)]
  /\ page' = Append(page, fourohfour(a).page)
  /\ res' = Append(res, fourohfour(a).res)
  /\ nextCalls' = Append(nextCalls, 0)
  /\ trace' = Append(trace, [hit |-> FALSE, evaluated |-> Evaluated(a, r),
                             tested |-> Tested(a, r), executed |-> {},
                             atNew |-> NoEntry, matched |-> Matches(a, r)])
  /\ testCount' = [p \in PageClasses |-> testCount[p] + CountTests(a, r, p)]
  /\ UNCHANGED <<execCount, instances>>

\* no page passes the filter: line 128
Forward(a, r, n) ==
  /\ routes' = [routes EXCEPT ![a] = ExpirableGet(routes[a], id(r), now)]
  /\ page' = Append(page, NoPage)
  /\ res' = Append(res, NewResponse)
  /\ nextCalls' = Append(nextCalls, 1)
  /\ trace' = Append(trace, [hit |-> FALSE, evaluated |-> Evaluated(a, r),
                             tested |-> Tested(a, r), executed |-> {},
                             atNew |-> NoEntry, matched |-> Matches(a, r)])
  /\ testCount' = [p \in PageClasses |-> testCount[p] + CountTests(a, r, p)]
  /\ UNCHANGED <<execCount, instances>>

\* a page passes the filter: lines 130-140
Match(a, r, n) ==
  LET first == Shift(a, r)
      P == pages[a][first]
      params == RouterExec(router[P], UrlParse(r.url))
      entry == [Page |-> P, params |-> params]
  IN /\ routes' = [routes EXCEPT ![a] =
                     RoutesStored(a, r, entry)]
     /\ page' = Append(page, NewPage(P, params))
     /\ instances' = [instances EXCEPT ![a] = Bind(a, r, n)]
     /\ res' = Append(res, NewResponse)
     /\ nextCalls' = Append(nextCalls, 0)
     /\ trace' = Append(trace, [hit |-> FALSE, evaluated |-> Evaluated(a, r),
                                tested |-> Tested(a, r), executed |-> {first},
                                atNew |-> EntryAt(RoutesAtNew(a, r, entry), id(r)),
                                matched |-> Matches(a, r)])
     /\ testCount' = [p \in PageClasses |-> testCount[p] + CountTests(a, r, p)]
     /\ execCount' = [execCount EXCEPT ![P] = @ + 1]

middlware(a, r) ==
  LET n == Len(req) + 1
  IN /\ a \in 1..Len(thrown)
     /\ thrown[a] = NoError
     /\ Len(req) < MaxRequests
     /\ req' = Append(req, [a |-> a, method |-> r.method, url |-> r.url,
                            sessionID |-> r.sessionID, at |-> now])
     /\ IF cached(a, r) THEN Hit(a, r, n)
        ELSE IF Matches(a, r) = {} THEN Forward(a, r, n)
        ELSE Match(a, r, n)
     /\ UNCHANGED <<now, router, compileCount, engine, thrown, pages, NotFound,
                    advances, errors>>

\* res.statusCode = 500; res.end(err.message)
fivehundered(rs, message) ==
  [statusCode |-> 500, ended |-> Append(rs.ended, message)]

\* an error handler that answers on the response of the instance that the
\* registry holds for the page's key
PageErrorViaRegistry(n) ==
  LET a == req[n].a
      k == InstanceKey(req[n])
      target == IF k \in DOMAIN instances[a] THEN instances[a][k].value ELSE n
  IN /\ n \in 1..Len(page)
     /\ page[n] # NoPage
     /\ errors < MaxErrors
     /\ errors' = errors + 1
     /\ page' = [page EXCEPT ![n].emitted = Append(@, ErrorMessage(errors'))]
     /\ res' = [res EXCEPT ![target] = fivehundered(res[target], ErrorMessage(errors'))]
     /\ UNCHANGED <<now, router, compileCount, testCount, execCount, engine,
                    thrown, pages, NotFound, routes, instances, req, nextCalls,
                    trace, advances>>

\* an error handler that also drops the instance from the registry
PageErrorEvicts(n) ==
  /\ n \in 1..Len(page)
  /\ page[n] # NoPage
  /\ errors < MaxErrors
  /\ errors' = errors + 1
  /\ page' = [page EXCEPT ![n].emitted = Append(@, ErrorMessage(errors'))]
  /\ res' = [res EXCEPT ![n] = fivehundered(res[n], ErrorMessage(errors'))]
  /\ instances' = [instances EXCEPT ![req[n].a] =
                     [k \in DOMAIN @ \ {InstanceKey(req[n])} |-> @[k]]]
  /\ UNCHANGED <<now, router, compileCount, testCount, execCount, engine, thrown,
                 pages, NotFound, routes, req, nextCalls, trace, advances>>

\* a page instance emits 'error': every listener is called
PageError(n) ==
  /\ n \in 1..Len(page)
  /\ page[n] # NoPage
  /\ errors < MaxErrors
  /\ errors' = errors + 1
  /\ page' = [page EXCEPT ![n].emitted = Append(@, ErrorMessage(errors'))]
  /\ res' = [res EXCEPT ![n] = IF page[n].listeners > 0
                               THEN fivehundered(res[n], ErrorMessage(errors'))
                               ELSE @]
  /\ UNCHANGED <<now, router, compileCount, testCount, execCount, engine, thrown,
                 pages, NotFound, routes, instances, req, nextCalls, trace,
                 advances>>

\* time passes
Advance(d) ==
  /\ advances < MaxAdvances
  /\ Len(req) < MaxRequests
  /\ advances' = advances + 1
  /\ now' = now + d
  /\ UNCHANGED <<router, compileCount, testCount, execCount, engine, thrown,
                 pages, NotFound, routes, instances, req, res, page, nextCalls,
                 trace, errors>>

\* the Expirables drop their expired entries
Scan(a) ==
  /\ a \in 1..Len(thrown)
  /\ \/ routes[a] # ExpirableScan(routes[a], now)
     \/ instances[a] # ExpirableScan(instances[a], now)
  /\ routes' = [routes EXCEPT ![a] = ExpirableScan(routes[a], now)]
  /\ instances' = [instances EXCEPT ![a] = ExpirableScan(instances[a], now)]
  /\ UNCHANGED <<now, router, compileCount, testCount, execCount, engine, thrown,
                 pages, NotFound, req, res, page, nextCalls, trace, advances,
                 errors>>

Next ==
  \/ \E o \in AttachOptions : attach(o)
  \/ \E a \in 1..MaxAttach, r \in Requests : middlware(a, r)
  \/ \E n \in 1..MaxRequests : PageError(n)
  \/ \E d \in ClockSteps : Advance(d)
  \/ \E a \in 1..MaxAttach : Scan(a)

Spec == Init /\ [][Next]_vars

\* The options of the attach calls of a host that attaches more than once.
ReattachOptions ==
  {o \in AttachOptions : o.pages # <<>> /\ Head(o.pages) \in {"Index", "User"}}

\* the host attaches several times and hands requests to the middlewares
NextReattach ==
  \/ \E o \in ReattachOptions : Reattach(o)
  \/ \E a \in 1..MaxReattach, r \in Requests : middlware(a, r)

SpecReattach == Init /\ [][NextReattach]_vars

\* ------------------------------------------------------------- vocabulary
Pathname(n) == UrlParse(req[n].url).pathname

\* requests n and m went to the same middleware with the same method and path
SameRoute(n, m) ==
  /\ req[n].a = req[m].a
  /\ req[n].method = req[m].method
  /\ Pathname(n) = Pathname(m)

Dispatched(n) == page[n] # NoPage

\* request i is the last one before n for n's route
LastAccess(i, n) ==
  /\ i < n
  /\ SameRoute(i, n)
  /\ \A j \in 1..Len(req) : (i < j /\ j < n) => ~SameRoute(j, n)

\* the registered descriptors that match request n, by the definition of a
\* match: equal methods up to case, and a pattern that fits the pathname
Matching(n) ==
  {i \in 1..Len(pages[req[n].a]) :
     /\ toLowerCase(PrototypeMethod(pages[req[n].a][i])) = toLowerCase(req[n].method)
     /\ RouterTest(Routable(PrototypePath(pages[req[n].a][i])),
                   [pathname |-> Pathname(n)])}

Earliest(S) == CHOOSE i \in S : \A j \in S : i <= j

\* the pairs <<n, i>>: request n called router.test on entry i of its pages
TestCalls == UNION {{<<n, i>> : i \in trace[n].tested} : n \in 1..Len(req)}

\* ---------------------------------------------------------------------- C1
\* C1: once the scan has dispatched a request, a later request to the same
\* middleware with the same method and path that arrives less than the TTL
\* after it is resolved from the route cache: it gets the same page
\* constructor and params and calls no router.test and no router.exec, and
\* the test counter of every page counts the calls of the scans only.
C1_SecondRequestFromCache ==
  /\ \A i, n \in 1..Len(req) :
       ( /\ i < n
         /\ SameRoute(i, n)
         /\ Dispatched(i)
         /\ ~trace[i].hit
         /\ req[n].at - req[i].at < TTL )
       => /\ trace[n].hit
          /\ trace[n].tested = {}
          /\ trace[n].executed = {}
          /\ page[n].Page = page[i].Page
          /\ page[n].params = page[i].params
  /\ \A p \in PageClasses :
       testCount[p] =
         Cardinality({c \in TestCalls : pages[req[c[1]].a][c[2]] = p})

C1_Witness ==
  \E i, n \in 1..Len(req) :
    /\ i < n
    /\ SameRoute(i, n)
    /\ req[i].url # req[n].url
    /\ Dispatched(i)
    /\ ~trace[i].hit
    /\ trace[n].hit
    /\ testCount[page[i].Page] = 1

\* ---------------------------------------------------------------------- C2
\* C2: a request that arrives the TTL or more after the last request for its
\* route takes the miss path (the scan runs over the pages), and once that
\* scan has stored the route again the next request for the route within the
\* TTL is a cache hit.
C2_ExpiredEntryIsMiss ==
  \A i, n \in 1..Len(req) :
    ( /\ LastAccess(i, n)
      /\ Dispatched(i)
      /\ req[n].at - req[i].at >= TTL )
    => /\ ~trace[n].hit
       /\ trace[n].evaluated = 1..Len(pages[req[n].a])
       /\ trace[n].executed # {}
       /\ Dispatched(n)
       /\ \A m \in 1..Len(req) :
            (LastAccess(n, m) /\ req[m].at - req[n].at < TTL) => trace[m].hit

C2_Witness ==
  \E i, n, m \in 1..Len(req) :
    /\ LastAccess(i, n)
    /\ LastAccess(n, m)
    /\ Dispatched(i)
    /\ req[n].at - req[i].at >= TTL
    /\ req[m].at - req[n].at < TTL
    /\ ~trace[n].hit
    /\ trace[m].hit

\* ---------------------------------------------------------------------- C3
\* C3: a page instance that has reported errors has got exactly one 500
\* response, whose body is the message of the first error it reported.
C3_ExactlyOne500 ==
  \A n \in 1..Len(req) :
    page[n].emitted # <<>>
    => /\ res[n].statusCode = 500
       /\ res[n].ended = <<Head(page[n].emitted)>>

\* ---------------------------------------------------------------------- C4
\* C4: a request that registered descriptors match is dispatched to the one
\* registered earliest among them, on the scan and on every repetition, and
\* the route cache holds that descriptor for the request's route.
C4_EarliestRegisteredWins ==
  \A n \in 1..Len(req) :
    Matching(n) # {}
    => /\ Dispatched(n)
       /\ page[n].Page = pages[req[n].a][Earliest(Matching(n))]
       /\ id(req[n]) \in DOMAIN routes[req[n].a]
          => routes[req[n].a][id(req[n])].value.Page
               = pages[req[n].a][Earliest(Matching(n))]

C4_Witness ==
  \E n, m \in 1..Len(req) :
    /\ n < m
    /\ SameRoute(n, m)
    /\ Cardinality(Matching(n)) >= 2
    /\ ~trace[n].hit
    /\ trace[m].hit
    /\ page[m].Page = pages[req[m].a][1]
    /\ id(req[m]) \in DOMAIN routes[req[m].a]

\* ---------------------------------------------------------------------- C5
\* C5 as stated: on a scan that finds a match, no descriptor registered after
\* the first match is evaluated.
C5_NoneEvaluatedAfterMatch ==
  \A n \in 1..Len(req) :
    (~trace[n].hit /\ Matching(n) # {})
    => /\ trace[n].evaluated \subseteq 1..Earliest(Matching(n))
       /\ trace[n].tested \subseteq 1..Earliest(Matching(n))

\* C5 amended: the scan evaluates every registered descriptor, the ones after
\* the first match too (the method of each is compared, the matcher of each
\* one with the request's method is tested); only the first match has its
\* params extracted and is instantiated.
C5_ScanEvaluatesAll ==
  \A n \in 1..Len(req) :
    ~trace[n].hit
    => /\ trace[n].evaluated = 1..Len(pages[req[n].a])
       /\ trace[n].tested =
            {i \in 1..Len(pages[req[n].a]) :
               toLowerCase(PrototypeMethod(pages[req[n].a][i]))
                 = toLowerCase(req[n].method)}
       /\ trace[n].executed =
            IF Matching(n) = {} THEN {} ELSE {Earliest(Matching(n))}
       /\ Matching(n) # {}
          => page[n].Page = pages[req[n].a][Earliest(Matching(n))]

C5_Witness ==
  \E n \in 1..Len(req) :
    /\ ~trace[n].hit
    /\ Matching(n) # {}
    /\ Earliest(Matching(n)) < Len(pages[req[n].a])
    /\ Len(pages[req[n].a]) \in trace[n].tested
    /\ trace[n].executed = {Earliest(Matching(n))}

\* ---------------------------------------------------------------------- C6
\* C6: a request that no registered descriptor matches, on a middleware
\* without a NotFound page, gets exactly one next() call, no page instance
\* and an untouched response.
C6_NoMatchForwards ==
  \A n \in 1..Len(req) :
    (Matching(n) = {} /\ ~NotFound[req[n].a])
    => /\ nextCalls[n] = 1
       /\ page[n] = NoPage
       /\ res[n] = NewResponse

C6_Witness ==
  \E n \in 1..Len(req) :
    /\ Matching(n) = {}
    /\ ~NotFound[req[n].a]
    /\ pages[req[n].a] # <<>>
    /\ nextCalls[n] = 1
    /\ res[n] = NewResponse

\* ---------------------------------------------------------------------- C7
\* C7: with a NotFound page configured too, a request that no registered
\* descriptor matches is forwarded; and no request ever gets a NotFound
\* instance or a 404 status from the dispatcher.
C7_NotFoundNeverUsed ==
  \A n \in 1..Len(req) :
    /\ (Matching(n) = {} /\ NotFound[req[n].a])
       => /\ nextCalls[n] = 1
          /\ page[n] = NoPage
          /\ res[n].ended = <<>>
    /\ page[n].Page # "NotFound"
    /\ res[n].statusCode # 404

C7_Witness ==
  \E n \in 1..Len(req) :
    /\ Matching(n) = {}
    /\ NotFound[req[n].a]
    /\ nextCalls[n] = 1

\* ---------------------------------------------------------------------- C8
\* the session identifiers requests come with
Sessions == {r.sessionID : r \in Requests}

\* the latest dispatched request of request n's session for n's route
LatestOfSession(n) ==
  LET S == {m \in 1..Len(req) :
              /\ SameRoute(m, n)
              /\ req[m].sessionID = req[n].sessionID
              /\ Dispatched(m)}
  IN CHOOSE m \in S : \A j \in S : j <= m

\* C8: two distinct sessions have distinct registry keys for every route, and
\* the slot of a session for a route, while it is there, holds the instance
\* of that session's latest request for the route; it is there as long as
\* that request is less than the TTL old.
C8_SessionsDoNotCollide ==
  /\ \A r \in Requests : \A s1, s2 \in Sessions :
       s1 # s2 => InstanceKey([r EXCEPT !.sessionID = s1])
                    # InstanceKey([r EXCEPT !.sessionID = s2])
  /\ \A n \in 1..Len(req) :
       Dispatched(n)
       => LET a == req[n].a
              k == Str(req[n].sessionID) \o <<":">> \o req[n].method
                     \o <<"@">> \o Pathname(n)
          IN /\ k \in DOMAIN instances[a]
                => instances[a][k].value = LatestOfSession(n)
             /\ now - req[LatestOfSession(n)].at < TTL => k \in DOMAIN instances[a]

C8_Witness ==
  \E n, m, l \in 1..Len(req) :
    /\ n < m
    /\ m < l
    /\ SameRoute(n, m)
    /\ SameRoute(m, l)
    /\ req[n].sessionID # req[m].sessionID
    /\ req[l].sessionID = req[n].sessionID
    /\ InstanceKey(req[m]) \in DOMAIN instances[req[m].a]
    /\ instances[req[m].a][InstanceKey(req[m])].value = m
    /\ InstanceKey(req[l]) \in DOMAIN instances[req[l].a]
    /\ instances[req[l].a][InstanceKey(req[l])].value = l

\* ---------------------------------------------------------------------- C9
\* C9: a registry slot holds one instance, the one created by the latest
\* dispatched request with the slot's key: a request dispatched for a key
\* whose slot is taken replaces the instance in it.
C9_SlotHoldsLatest ==
  \A a \in 1..Len(instances) : \A k \in DOMAIN instances[a] :
    LET v == instances[a][k].value
    IN /\ v \in 1..Len(req)
       /\ req[v].a = a
       /\ Dispatched(v)
       /\ InstanceKey(req[v]) = k
       /\ \A m \in 1..Len(req) :
            (req[m].a = a /\ Dispatched(m) /\ InstanceKey(req[m]) = k) => m <= v

C9_Witness ==
  \E n, m \in 1..Len(req) :
    /\ n < m
    /\ req[n].a = req[m].a
    /\ Dispatched(n)
    /\ Dispatched(m)
    /\ InstanceKey(req[n]) = InstanceKey(req[m])
    /\ req[m].at - req[n].at < TTL
    /\ InstanceKey(req[m]) \in DOMAIN instances[req[m].a]
    /\ instances[req[m].a][InstanceKey(req[m])].value = m

\* --------------------------------------------------------------------- C10
\* C10: an attach call that throws has constructed no Engine and has left no
\* middleware behind.
C10_NoPartialAttach ==
  \A a \in 1..Len(thrown) :
    thrown[a] # NoError
    => /\ ~engine[a]
       /\ \A n \in 1..Len(req) : req[n].a # a

\* --------------------------------------------------------------------- C11
\* C11: the step in which a page instance reports an error leaves the route
\* cache and the instance registry of every middleware as they were.
C11_ErrorLeavesCaches ==
  [][errors' # errors => (routes' = routes /\ instances' = instances)]_vars

C11_Witness ==
  \E n \in 1..Len(req) :
    /\ page[n].emitted # <<>>
    /\ res[n].statusCode = 500
    /\ id(req[n]) \in DOMAIN routes[req[n].a]
    /\ InstanceKey(req[n]) \in DOMAIN instances[req[n].a]
    /\ instances[req[n].a][InstanceKey(req[n])].value = n

\* --------------------------------------------------------------------- C12
MissingOrEmpty(n) == req[n].sessionID = undefined \/ req[n].sessionID = <<>>

\* the text that stands for a missing session in the registry key
Sentinel == <<"u", "n", "d", "e", "f", "i", "n", "e", "d">>

RouteKeyOf(n) == req[n].method \o <<"@">> \o Pathname(n)

\* the key of request n's slot, by the rule of concatenation: a missing
\* session reads as the sentinel, an empty one as the empty text
ConcatKey(n) ==
  (IF req[n].sessionID = undefined THEN Sentinel ELSE req[n].sessionID)
    \o <<":">> \o RouteKeyOf(n)

\* C12 as stated: a matched request with a missing or an empty session is
\* dispatched, and its instance is registered under the key built from the
\* fixed sentinel in place of the session.
C12_SentinelForMissingOrEmpty ==
  \A n \in 1..Len(req) :
    (MissingOrEmpty(n) /\ Matching(n) # {})
    => /\ Dispatched(n)
       /\ now - req[LatestOfSession(n)].at < TTL
          => /\ Sentinel \o <<":">> \o RouteKeyOf(n) \in DOMAIN instances[req[n].a]
             /\ instances[req[n].a][Sentinel \o <<":">> \o RouteKeyOf(n)].value
                  = LatestOfSession(n)

\* C12 amended: a matched request with a missing or an empty session is
\* dispatched; with a missing session its instance is registered under the
\* sentinel "undefined" followed by ":" and the route key, with an empty
\* session under ":" and the route key (the empty text itself, no sentinel),
\* so the two do not share a slot.
C12_MissingOrEmptySessionKey ==
  \A n \in 1..Len(req) :
    (MissingOrEmpty(n) /\ Matching(n) # {})
    => /\ Dispatched(n)
       /\ now - req[LatestOfSession(n)].at < TTL
          => /\ ConcatKey(n) \in DOMAIN instances[req[n].a]
             /\ instances[req[n].a][ConcatKey(n)].value = LatestOfSession(n)
       /\ \A m \in 1..Len(req) :
            (SameRoute(n, m) /\ MissingOrEmpty(m)
               /\ req[m].sessionID # req[n].sessionID)
            => ConcatKey(m) # ConcatKey(n)

C12_Witness ==
  \E n, m \in 1..Len(req) :
    /\ SameRoute(n, m)
    /\ req[n].sessionID = undefined
    /\ req[m].sessionID = <<>>
    /\ Dispatched(n)
    /\ Dispatched(m)
    /\ instances[req[n].a][Sentinel \o <<":">> \o RouteKeyOf(n)].value = n
    /\ instances[req[m].a][<<":">> \o RouteKeyOf(m)].value = m

\* --------------------------------------------------------------------- C13
\* C13: whatever attach calls and requests have happened, one Routable at
\* most has been constructed for every page constructor: exactly one for a
\* constructor that has a router, none for the others.
C13_CompiledOnce ==
  \A p \in PageClasses :
    /\ compileCount[p] <= 1
    /\ compileCount[p] = 1 <=> router[p] # NoRouter

C13_Witness ==
  \E p \in PageClasses : \E n, m \in 1..Len(req) :
    /\ Len(pages) >= 2
    /\ \E i \in 1..Len(pages[1]) : pages[1][i] = p
    /\ \E i \in 1..Len(pages[2]) : pages[2][i] = p
    /\ compileCount[p] = 1
    /\ req[n].a = 2
    /\ ~trace[n].hit
    /\ page[n].Page = p
    /\ trace[m].hit
    /\ page[m].Page = p

\* --------------------------------------------------------------------- C14
\* C14: when the page constructor runs on the miss path, the route cache
\* already holds, under the request's route key, the descriptor and params
\* the page is constructed with.
C14_StoredBeforeInstantiated ==
  \A n \in 1..Len(req) :
    (~trace[n].hit /\ Dispatched(n))
    => trace[n].atNew = [Page |-> page[n].Page, params |-> page[n].params]

C14_Witness ==
  \E n \in 1..Len(req) :
    /\ ~trace[n].hit
    /\ Dispatched(n)
    /\ page[n].params # <<>>
    /\ trace[n].atNew.Page = page[n].Page

\* --------------------------------------------------------------------- C15
\* do two methods differ in the case of their letters at most
SameMethod(m1, m2) ==
  /\ Len(m1) = Len(m2)
  /\ \A i \in 1..Len(m1) : LowerChar(m1[i]) = LowerChar(m2[i])

\* the url up to its query string
BeforeQuery(u) ==
  IF \E i \in 1..Len(u) : u[i] = "?"
  THEN SubSeq(u, 1, (CHOOSE i \in 1..Len(u) :
                       u[i] = "?" /\ \A j \in 1..(i - 1) : u[j] # "?") - 1)
  ELSE u

\* the descriptors of request n's middleware with the request's method, up
\* to case, and a pattern that fits the url without its query string
Fitting(n) ==
  {i \in 1..Len(pages[req[n].a]) :
     /\ SameMethod(PrototypeMethod(pages[req[n].a][i]), req[n].method)
     /\ RouterTest(Routable(PrototypePath(pages[req[n].a][i])),
                   [pathname |-> BeforeQuery(req[n].url)])}

\* C15: the scan selects exactly the descriptors whose method equals the
\* request's up to case and whose matcher fits the pathname, and no request
\* gets an instance of a descriptor that fails one of the two.
C15_MatchIffMethodAndPath ==
  \A n \in 1..Len(req) :
    /\ ~trace[n].hit
       => /\ trace[n].matched = Fitting(n)
          /\ Dispatched(n) <=> Fitting(n) # {}
    /\ Dispatched(n)
       => \E i \in Fitting(n) : pages[req[n].a][i] = page[n].Page

C15_Witness ==
  \E n, m \in 1..Len(req) :
    /\ ~trace[n].hit
    /\ req[n].url # BeforeQuery(req[n].url)
    /\ Dispatched(n)
    /\ PrototypeMethod(page[n].Page) # req[n].method
    /\ ~trace[m].hit
    /\ Fitting(m) # {}
    /\ Fitting(m) # 1..Len(pages[req[m].a])

C17_DispatchedOrForwarded ==
  [][Len(req') = Len(req) + 1
     => LET n == Len(req')
            a == req'[n].a
            k == InstanceKey(req'[n])
        IN /\ Len(page') = Len(page) + 1
           /\ \A i \in 1..Len(page) : page'[i] = page[i]
           /\ \/ /\ page'[n].Page \in PageClasses
                 /\ page'[n].listeners = 1
                 /\ nextCalls'[n] = 0
                 /\ k \in DOMAIN instances'[a]
                 /\ instances'[a][k].value = n
                 /\ \A x \in DOMAIN instances'[a] \ {k} :
                      x \in DOMAIN instances[a] /\ instances'[a][x] = instances[a][x]
                 /\ \A b \in 1..Len(instances) : b # a => instances'[b] = instances[b]
              \/ /\ page'[n] = NoPage
                 /\ nextCalls'[n] = 1
                 /\ instances' = instances]_vars

C17_Witness ==
  \E n, m \in 1..Len(req) :
    /\ req[n].a = req[m].a
    /\ Dispatched(n)
    /\ nextCalls[n] = 0
    /\ instances[req[n].a][InstanceKey(req[n])].value = n
    /\ ~Dispatched(m)
    /\ nextCalls[m] = 1

\* --------------------------------------------------------------------- C18
\* the descriptors of middleware a that match a method and a pathname
MatchingIn(a, method, pathname) ==
  {i \in 1..Len(pages[a]) :
     /\ toLowerCase(PrototypeMethod(pages[a][i])) = toLowerCase(method)
     /\ RouterTest(Routable(PrototypePath(pages[a][i])), [pathname |-> pathname])}

\* what the linear scan of middleware a produces for a method and a pathname
Scanned(a, method, pathname) ==
  LET P == pages[a][Earliest(MatchingIn(a, method, pathname))]
  IN [Page |-> P,
      params |-> RouterExec(Routable(PrototypePath(P)), [pathname |-> pathname])]

\* C18: a page instantiated on a cache hit gets the constructor and params
\* the linear scan produces for the request, and every route cache entry,
\* stored under the key of a method and a pathname, holds what the scan
\* produces for that method and pathname.
C18_CacheTransparent ==
  /\ \A n \in 1..Len(req) :
       trace[n].hit
       => /\ MatchingIn(req[n].a, req[n].method, Pathname(n)) # {}
          /\ [Page |-> page[n].Page, params |-> page[n].params]
               = Scanned(req[n].a, req[n].method, Pathname(n))
  /\ \A a \in 1..Len(routes) : \A k \in DOMAIN routes[a] :
       \E r \in Requests :
         /\ k = r.method \o <<"@">> \o BeforeQuery(r.url)
         /\ MatchingIn(a, r.method, BeforeQuery(r.url)) # {}
         /\ routes[a][k].value = Scanned(a, r.method, BeforeQuery(r.url))

C18_Witness ==
  \E n \in 1..Len(req) :
    /\ trace[n].hit
    /\ Cardinality(MatchingIn(req[n].a, req[n].method, Pathname(n))) >= 2
    /\ page[n].params # <<>>
    /\ now - req[n].at >= TTL
    /\ id(req[n]) \in DOMAIN routes[req[n].a]

\* --------------------------------------------------------------------- C19
\* C19: the response of a request carries the error reports of the page
\* instance created for that request and of no other: it is untouched while
\* that instance has reported nothing, also when another instance of the same
\* session and route has, and it is a 500 with that instance's messages once
\* it has, also when a later request has taken over the registry slot.
C19_ErrorOnOwnResponse ==
  \A n \in 1..Len(req) :
    /\ res[n].ended = page[n].emitted
    /\ page[n].emitted = <<>> => res[n] = NewResponse
    /\ page[n].emitted # <<>> => res[n].statusCode = 500

C19_Witness ==
  \E n, m \in 1..Len(req) :
    /\ n < m
    /\ req[n].a = req[m].a
    /\ InstanceKey(req[n]) = InstanceKey(req[m])
    /\ Dispatched(n)
    /\ Dispatched(m)
    /\ instances[req[m].a][InstanceKey(req[m])].value = m
    /\ page[n].emitted # <<>>
    /\ res[n].statusCode = 500
    /\ res[m] = NewResponse

====
